---- MODULE Spec2Model ----
(***************************************************************************)
(* Model of aibot.py, a command-line client of an Ollama server.           *)
(*                                                                         *)
(* Python strings are sequences of one-character strings, so that          *)
(* concatenation, strip() and "\n".join() are computed and not assumed.    *)
(* A dict is a function from keys to values; dict.get is Get.              *)
(*                                                                         *)
(* Three specifications share the definitions:                             *)
(*   SpecStream  json_stream and stream_response, one response line at a   *)
(*               time;                                                     *)
(*   SpecPick    pick_model and list_models on drawn inputs;               *)
(*   Spec        main(), from the parsed arguments to the process exit.    *)
(***************************************************************************)
EXTENDS Integers, Sequences, FiniteSets, TLC

\* ------------------------------------------------------------------ bounds
MaxLines == 3
MaxTags == 2
MaxRespLines == 1
MaxCycles == 2
MaxInputLines == 2

\* --------------------------------------------------------------- constants
NsPerSec == 1000000000

\* ----------------------------------------------------------- Python values
None == <<"<None>">>
EmptyStr == <<>>
EmptyDict == [k \in {} |-> <<>>]

Truthy(s) == s # None /\ s # EmptyStr

Get(d, k, default) == IF k \in DOMAIN d THEN d[k] ELSE default

Last(s) == s[Len(s)]

RECURSIVE Concat(_)
Concat(ss) == IF ss = <<>> THEN <<>> ELSE Head(ss) \o Concat(Tail(ss))

RECURSIVE GCD(_, _)
GCD(a, b) == IF b = 0 THEN a ELSE GCD(b, a % b)

NoExc == "NoExc"

\* ------------------------------------------------------ the response lines
\* A decoded JSON value: a mapping, or a value that is not a mapping.
Dict(d) == [t |-> "dict", d |-> d]
Scalar == [t |-> "int"]

Fragments == {EmptyStr, <<"a">>, <<"b">>}

\* the counters of a record: none, a zero duration, two seconds for 100 tokens
Counters ==
  { EmptyDict,
    [eval_count |-> 100, eval_duration |-> 0],
    [eval_count |-> 100, eval_duration |-> 2 * NsPerSec] }

\* records of POST /api/generate: an optional response field
GenerateRecords(frags, counters) ==
  { Dict(c) : c \in counters } \cup
  { Dict([response |-> f] @@ c) : f \in frags, c \in counters }

\* records of POST /api/chat: an optional message with an optional content
ChatRecords(frags, counters) ==
  { Dict(c) : c \in counters } \cup
  { Dict([message |-> EmptyDict] @@ c) : c \in counters } \cup
  { Dict([message |-> [content |-> f]] @@ c) : f \in frags, c \in counters }

BlankLine == [kind |-> "blank"]
MalformedLine == [kind |-> "malformed"]
JsonLine(v) == [kind |-> "json", value |-> v]

\* the lines an endpoint can send: blank, not JSON, JSON that is no mapping,
\* and the records of its layout
ResponseLines(chat) ==
  {BlankLine, MalformedLine, JsonLine(Scalar)} \cup
  { JsonLine(r) : r \in IF chat THEN ChatRecords(Fragments, Counters)
                                 ELSE GenerateRecords(Fragments, Counters) }

\* ------------------------------------------------------------- json_stream
json_loads(raw_line) ==
  IF raw_line.kind = "json"
  THEN [ok |-> TRUE, value |-> raw_line.value]
  ELSE [ok |-> FALSE, exc |-> "JSONDecodeError"]

\* the except clause left out
CaughtNothing(exc) == FALSE

\* the except clause of json_stream
Caught(exc) == exc = "JSONDecodeError"

\* one iteration of the loop of json_stream: what it yields for a line
json_stream_line(raw_line) ==
  IF raw_line.kind = "blank"
  THEN [yield |-> <<>>, exc |-> NoExc]
  ELSE LET r == json_loads(raw_line) IN
       IF r.ok THEN [yield |-> <<r.value>>, exc |-> NoExc]
       ELSE IF Caught(r.exc) THEN [yield |-> <<>>, exc |-> NoExc]
       ELSE [yield |-> <<>>, exc |-> r.exc]

\* --------------------------------------------------------- stream_response
Unbound == [bound |-> FALSE]
Bound(v) == [bound |-> TRUE, value |-> v]

\* the state of one call: the locals buffer, chunk, tokens_per_second, what
\* was printed (emitted: the fragments; live: the last Markdown update;
\* metric: the tokens-per-second line), and how the call ended
sr0 ==
  [ buffer |-> EmptyStr, chunk |-> Unbound, tokens_per_second |-> Unbound,
    emitted |-> <<>>, live |-> EmptyStr, metric |-> None,
    status |-> "ACCUMULATING", exc |-> NoExc, ret |-> None ]

\* the text fragment of a record, by the field layout of the request type
Fragment(chunk, chatmode) ==
  IF chunk.t # "dict" THEN [ok |-> FALSE, exc |-> "AttributeError"]
  ELSE IF ~chatmode
       THEN [ok |-> TRUE, value |-> Get(chunk.d, "response", EmptyStr)]
       ELSE [ok |-> TRUE,
             value |-> Get(Get(chunk.d, "message", EmptyDict), "content", EmptyStr)]

\* raw mode that skips a fragment equal to the one before it
RawBodyDedup(s, token) ==
  [s EXCEPT !.buffer = token,
            !.emitted = IF token # EmptyStr /\ token # s.buffer
                        THEN Append(@, token) ELSE @]

\* raw mode: the fragment replaces buffer and is printed when not empty
RawBody(s, token) ==
  [s EXCEPT !.buffer = token,
            !.emitted = IF token # EmptyStr THEN Append(@, token) ELSE @]

\* formatted mode: a non-empty fragment is appended to buffer and re-rendered
MarkdownBody(s, token) ==
  IF token # EmptyStr
  THEN [s EXCEPT !.buffer = @ \o token, !.live = s.buffer \o token]
  ELSE s

\* the body of the for loop, for one yielded record
LoopBody(s, chunk, no_md, chatmode) ==
  LET f == Fragment(chunk, chatmode)
      s1 == [s EXCEPT !.chunk = Bound(chunk)]
  IN IF ~f.ok THEN [s1 EXCEPT !.status = "RAISED", !.exc = f.exc]
     ELSE IF no_md THEN RawBody(s1, f.value)
     ELSE MarkdownBody(s1, f.value)

\* (eval_count / eval_duration) * 1_000_000_000, in hundredths as the
\* format {:.2f} prints it
TokensPerSecond(eval_count, eval_duration) ==
  LET g == GCD(NsPerSec, eval_duration)
  IN (eval_count * (NsPerSec \div g) * 100) \div (eval_duration \div g)

\* the statements after the loop
Finish(s) ==
  IF ~s.chunk.bound
  THEN [s EXCEPT !.status = "RAISED", !.exc = "UnboundLocalError"]
  ELSE LET eval_count == Get(s.chunk.value.d, "eval_count", 0)
           eval_duration == Get(s.chunk.value.d, "eval_duration", 0)
           tps == IF eval_duration > 0
                  THEN Bound(TokensPerSecond(eval_count, eval_duration))
                  ELSE s.tokens_per_second
       IN IF ~tps.bound
          THEN [s EXCEPT !.status = "RAISED", !.exc = "UnboundLocalError"]
          ELSE [s EXCEPT !.tokens_per_second = tps, !.metric = tps.value,
                         !.status = "DONE", !.ret = s.buffer]

\* one line of the response: json_stream on it, then the loop body
OnLine(s, raw_line, no_md, chatmode) ==
  LET y == json_stream_line(raw_line) IN
  IF y.exc # NoExc THEN [s EXCEPT !.status = "RAISED", !.exc = y.exc]
  ELSE IF y.yield = <<>> THEN s
  ELSE LoopBody(s, y.yield[1], no_md, chatmode)

\* the whole call on a finite response
RECURSIVE Consume(_, _, _, _)
Consume(s, resp, no_md, chatmode) ==
  IF s.status # "ACCUMULATING" \/ resp = <<>> THEN s
  ELSE Consume(OnLine(s, Head(resp), no_md, chatmode), Tail(resp), no_md, chatmode)

stream_response(resp, no_md, chatmode) ==
  LET s == Consume(sr0, resp, no_md, chatmode)
  IN IF s.status = "ACCUMULATING" THEN Finish(s) ELSE s

\* ------------------------------------------------------------- list_models
\* a JSON value of the listing: null or missing, a list, or something else
JNone == [t |-> "none"]
JStr == [t |-> "str"]
JList(items) == [t |-> "list", items |-> items]

JTruthy(v) == v.t = "str" \/ (v.t = "list" /\ v.items # <<>>)

\* Python's  a or b
Or(a, b) == IF JTruthy(a) THEN a ELSE b

ModelNames == {<<"n", "1">>, <<"n", "2">>}

\* the entries of a listing: descriptors with a name, one without, a non-dict
TagEntries == { Dict([name |-> n]) : n \in ModelNames } \cup {Dict(EmptyDict), Scalar}

RECURSIVE SeqsUpTo(_, _)
SeqsUpTo(S, n) ==
  IF n = 0 THEN {<<>>}
  ELSE LET shorter == SeqsUpTo(S, n - 1)
       IN shorter \cup { Append(q, x) : q \in shorter, x \in S }

TagValues == {JStr} \cup { JList(items) : items \in SeqsUpTo(TagEntries, MaxTags) }

ListingBodies ==
  {EmptyDict} \cup
  { [tags |-> v] : v \in TagValues } \cup
  { [models |-> v] : v \in TagValues } \cup
  { [tags |-> v, models |-> w] :
      v \in {JStr, JList(<<>>), JList(<<Dict([name |-> <<"n", "2">>])>>)},
      w \in TagValues }

\* what GET /api/tags does: fails, or answers with a JSON body
Servers == {[ok |-> FALSE]} \cup { [ok |-> TRUE, data |-> d] : d \in ListingBodies }

Raise(exc, msg) == [ok |-> FALSE, exc |-> exc, msg |-> msg]
Return(v) == [ok |-> TRUE, value |-> v]

\* the list comprehension: the names of the entries that are dicts with a name
RECURSIVE Names(_)
Names(tags) ==
  IF tags = <<>> THEN <<>>
  ELSE LET t == Head(tags) IN
       IF t.t = "dict" /\ "name" \in DOMAIN t.d
       THEN <<t.d.name>> \o Names(Tail(tags))
       ELSE Names(Tail(tags))

list_models(server) ==
  IF ~server.ok
  THEN Raise("RuntimeError", "Failed to reach Ollama server")
  ELSE LET tags == Or(Get(server.data, "tags", JNone), Get(server.data, "models", JNone))
       IN IF tags.t # "list"
          THEN Raise("RuntimeError", "Unexpected response format from /api/tags")
          ELSE Return(Names(tags.items))

\* -------------------------------------------------------------- pick_model
GetTags == "GET /api/tags"

\* the environment variable consulted before the explicit name
pick_model_env_first(user_specified, env_model, server) ==
  IF Truthy(env_model) THEN Return(env_model) @@ [calls |-> <<>>]
  ELSE IF Truthy(user_specified) THEN Return(user_specified) @@ [calls |-> <<>>]
  ELSE LET l == list_models(server) IN
       IF l.ok /\ l.value # <<>>
       THEN Return(l.value[1]) @@ [calls |-> <<GetTags>>]
       ELSE Raise("RuntimeError", "No models available to pick") @@ [calls |-> <<GetTags>>]

\* the result, and the HTTP calls made on the way
pick_model(user_specified, env_model, server) ==
  IF Truthy(user_specified) THEN Return(user_specified) @@ [calls |-> <<>>]
  ELSE IF Truthy(env_model) THEN Return(env_model) @@ [calls |-> <<>>]
  ELSE LET l == list_models(server) IN
       \* list_models()[0]: any exception, the IndexError of an empty list
       \* included, becomes the RuntimeError of line 99
       IF l.ok /\ l.value # <<>>
       THEN Return(l.value[1]) @@ [calls |-> <<GetTags>>]
       ELSE Raise("RuntimeError", "No models available to pick") @@ [calls |-> <<GetTags>>]

OptionalNames == {None, EmptyStr, <<"m">>, <<"e">>}

\* -------------------------------------------------------------------- main
SYSTEM_MESSAGE == <<"S", "Y", "S">>

Whitespace == {" ", "\n"}

RECURSIVE LStrip(_)
LStrip(s) == IF s # <<>> /\ Head(s) \in Whitespace THEN LStrip(Tail(s)) ELSE s

RECURSIVE RStrip(_)
RStrip(s) ==
  IF s # <<>> /\ Last(s) \in Whitespace THEN RStrip(SubSeq(s, 1, Len(s) - 1)) ELSE s

\* str.strip()
Strip(s) == RStrip(LStrip(s))

\* "\n".join(line): the characters of line, a newline between two of them
RECURSIVE Join(_)
Join(line) ==
  IF Len(line) <= 1 THEN line
  ELSE <<Head(line), "\n">> \o Join(Tail(line))

Message(role, content) == [role |-> role, content |-> content]

\* the prompt of single-shot mode: the argument, or else standard input,
\* stripped, with the -append_p value after three newlines
SingleShotPrompt(prompt_arg, append_p, stdin_text) ==
  IF prompt_arg = None
  THEN IF Truthy(append_p)
       THEN Strip(stdin_text) \o <<"\n", "\n", "\n">> \o append_p
       ELSE Strip(stdin_text)
  ELSE prompt_arg

\* the system text of the payload of stream_generate
GenerateSystem(system_prompt) ==
  IF system_prompt # None THEN system_prompt ELSE SYSTEM_MESSAGE

\* the system entry of chat mode
ChatSystem(system_prompt) ==
  IF Truthy(system_prompt) THEN system_prompt ELSE SYSTEM_MESSAGE

\* history.append of the user turn
UserTurn(history, prompt) == Append(history, Message("user", prompt))

\* an assistant turn that is stored only when the reply is not empty
AssistantTurnSkipEmpty(history, assistant_reply) ==
  IF assistant_reply = EmptyStr THEN history
  ELSE Append(history, Message("assistant", assistant_reply))

\* history.append of the assistant turn
AssistantTurn(history, assistant_reply) ==
  Append(history, Message("assistant", assistant_reply))

\* an input loop that keeps every line of the round
InputLineKeepAll(prompt, line) == prompt \o Join(line)

\* the assignment of the input loop, for a line that is not the sentinel
InputLine(prompt, line) == Join(line)

Sentinel == <<".">>

\* a handler that covers only the input loop
InTryInputOnly(at) == at = "awaiting_input"

\* the positions of main that the try statement encloses
InTry(at) == at \in {"loop_head", "in_flight", "awaiting_input"}

PostGenerate == "POST /api/generate"
PostChat == "POST /api/chat"

\* the responses a request can get
SessionFragments == {EmptyStr, <<"a">>}
SessionCounters == {EmptyDict, [eval_count |-> 100, eval_duration |-> 2 * NsPerSec]}
SessionLines(chat) ==
  {MalformedLine} \cup
  { JsonLine(r) : r \in IF chat THEN ChatRecords(SessionFragments, SessionCounters)
                                 ELSE GenerateRecords(SessionFragments, SessionCounters) }
Responses(chat) == SeqsUpTo(SessionLines(chat), MaxRespLines)

TerminalLines == {Sentinel, EmptyStr, <<"a", "b">>}

Args ==
  [ list : BOOLEAN, no_md : BOOLEAN, chat : BOOLEAN,
    model : {None, <<"m">>},
    system : {None, EmptyStr, <<"s">>},
    append_p : {None, <<"p">>},
    prompt : {None, <<"q">>} ]

StdinTexts == {EmptyStr, <<"x", "\n">>}

EnvValues == {None, EmptyStr, <<"e">>}

\* =============================================================== variables
\* SpecStream: one call of stream_response
VARIABLES no_md, chatmode, lines, yielded, ended, sr
\* SpecPick: one call of pick_model
VARIABLES user_specified, env_model, server, picked

\* Spec: one run of main. stdin is what sys.stdin.read() returned (None while
\* it was not called). sigint, round, sent and replies record what happened
\* (where an interrupt arrived, the lines of the current input round, the
\* prompts posted, the replies returned); the program does not read them.
VARIABLES pc, args, stdin, model, prompt, history, request, http, console,
          uncaught, exit_code, sigint, round, sent, replies

svars == <<no_md, chatmode, lines, yielded, ended, sr>>
pvars == <<user_specified, env_model, server, picked>>
mvars == <<pc, args, stdin, model, prompt, history, request, http, console,
           uncaught, exit_code, sigint, round, sent, replies>>

vars == <<svars, pvars, mvars>>

Running == -1

MainIdle ==
  /\ pc = "idle"
  /\ args = [list |-> FALSE, no_md |-> FALSE, chat |-> FALSE, model |-> None,
             system |-> None, append_p |-> None, prompt |-> None]
  /\ stdin = None /\ model = None /\ prompt = None
  /\ history = <<>> /\ request = EmptyDict /\ http = <<>> /\ console = {}
  /\ uncaught = NoExc /\ exit_code = Running /\ sigint = "none"
  /\ round = <<>> /\ sent = <<>> /\ replies = <<>>

Pending == [ok |-> FALSE, exc |-> "pending", msg |-> "", calls |-> <<>>]

StreamIdle ==
  /\ no_md = FALSE /\ chatmode = FALSE
  /\ lines = <<>> /\ yielded = <<>> /\ ended = FALSE /\ sr = sr0

PickIdle ==
  /\ user_specified = None /\ env_model = None
  /\ server = [ok |-> FALSE] /\ picked = Pending

\* ================================================================ SpecPick
PickInit ==
  /\ user_specified \in OptionalNames
  /\ env_model \in OptionalNames
  /\ server \in Servers
  /\ picked = Pending
  /\ StreamIdle
  /\ MainIdle

CallPickModel ==
  /\ picked = Pending
  /\ picked' = pick_model(user_specified, env_model, server)
  /\ UNCHANGED <<user_specified, env_model, server, svars, mvars>>

PickNext == CallPickModel

SpecPick == PickInit /\ [][PickNext]_vars

\* ==================================================================== Spec
NoPromptError == "Error: No prompt supplied."
ExitingNotice == "Exiting.  (History was only kept in RAM)"

Init ==
  /\ pc = "start"
  /\ args \in Args
  /\ stdin = None
  /\ model = None /\ prompt = None
  /\ history = <<>> /\ request = EmptyDict /\ http = <<>> /\ console = {}
  /\ uncaught = NoExc /\ exit_code = Running /\ sigint = "none"
  /\ round = <<>> /\ sent = <<>> /\ replies = <<>>
  /\ StreamIdle
  /\ PickIdle

\* sys.exit(code)
Exit(code) == pc' = "exited" /\ exit_code' = code /\ uncaught' = uncaught

\* an exception that nothing catches ends the process with a traceback
Die(exc) == pc' = "exited" /\ exit_code' = 1 /\ uncaught' = exc

\* -list: print the listing and exit
ListModels ==
  /\ pc = "start" /\ args.list
  /\ \E srv \in Servers :
       LET l == list_models(srv) IN
       /\ http' = Append(http, GetTags)
       /\ IF l.ok THEN console' = console \cup {"listing"} /\ Exit(0)
          ELSE console' = console /\ Die(l.exc)
  /\ UNCHANGED <<args, stdin, model, prompt, history, request, sigint, round,
                 sent, replies, svars, pvars>>

\* model = pick_model(args.model)
ResolveModel ==
  /\ pc = "start" /\ ~args.list
  /\ \E env \in EnvValues, srv \in Servers :
       LET r == pick_model(args.model, env, srv) IN
       /\ http' = http \o r.calls
       /\ IF r.ok
          THEN model' = r.value /\ pc' = "model_picked"
               /\ UNCHANGED <<uncaught, exit_code>>
          ELSE model' = model /\ Die(r.exc)
  /\ UNCHANGED <<args, stdin, prompt, history, request, console, sigint, round,
                 sent, replies, svars, pvars>>

\* single-shot mode up to the POST of stream_generate; standard input is
\* read only when there is no positional prompt
SingleShotSend ==
  /\ pc = "model_picked" /\ ~args.chat
  /\ \E text \in StdinTexts :
       LET p == SingleShotPrompt(args.prompt, args.append_p, text) IN
       /\ stdin' = IF args.prompt = None THEN text ELSE stdin
       /\ IF p = None
          THEN /\ console' = console \cup {NoPromptError}
               /\ Exit(1)
               /\ UNCHANGED <<prompt, request, http>>
          ELSE /\ prompt' = p
               /\ console' = console \cup {"prompt panel"}
               /\ request' = [model |-> model, prompt |-> p,
                              system |-> GenerateSystem(args.system)]
               /\ http' = Append(http, PostGenerate)
               /\ pc' = "in_flight"
               /\ UNCHANGED <<uncaught, exit_code>>
  /\ UNCHANGED <<args, model, history, sigint, round, sent, replies,
                 svars, pvars>>

\* chat mode up to the try statement
ChatStart ==
  /\ pc = "model_picked" /\ args.chat
  /\ IF args.prompt = None
     THEN /\ console' = console \cup {NoPromptError}
          /\ Exit(1)
          /\ UNCHANGED <<prompt, history>>
     ELSE /\ prompt' = args.prompt
          /\ console' = console \cup {"prompt panel"}
          /\ history' = <<Message("system", ChatSystem(args.system))>>
          /\ pc' = "loop_head"
          /\ UNCHANGED <<uncaught, exit_code>>
  /\ UNCHANGED <<args, stdin, model, request, http, sigint, round, sent,
                 replies, svars, pvars>>

\* the head of a cycle: the user turn and the POST of chat_generate
ChatSend ==
  /\ pc = "loop_head"
  /\ Len(sent) < MaxCycles
  /\ history' = UserTurn(history, prompt)
  /\ request' = [model |-> model, messages |-> history']
  /\ http' = Append(http, PostChat)
  /\ sent' = Append(sent, prompt)
  /\ pc' = "in_flight"
  /\ UNCHANGED <<args, stdin, model, prompt, console, uncaught, exit_code,
                 sigint, round, replies, svars, pvars>>

\* the request fails (no connection, an error status, a broken stream)
RequestFails ==
  /\ pc = "in_flight"
  /\ Die("RequestException")
  /\ UNCHANGED <<args, stdin, model, prompt, history, request, http, console,
                 sigint, round, sent, replies, svars, pvars>>

\* the response arrives and stream_response runs over it
ReceiveResponse ==
  /\ pc = "in_flight"
  /\ \E resp \in Responses(args.chat) :
       LET r == stream_response(resp, args.no_md, args.chat) IN
       IF r.status # "DONE"
       THEN Die(r.exc) /\ UNCHANGED <<history, replies, round, console>>
       ELSE IF args.chat
       THEN /\ history' = AssistantTurn(history, r.ret)
            /\ replies' = Append(replies, r.ret)
            /\ round' = <<>>
            /\ console' = console \cup {"Ctrl-C to end chat"}
            /\ pc' = "awaiting_input"
            /\ UNCHANGED <<uncaught, exit_code>>
       ELSE Exit(0) /\ UNCHANGED <<history, replies, round, console>>
  /\ UNCHANGED <<args, stdin, model, prompt, request, http, sigint, sent,
                 svars, pvars>>

\* input() returns a line that is not the sentinel
ReadLine ==
  /\ pc = "awaiting_input"
  /\ Len(round) < MaxInputLines
  /\ \E line \in TerminalLines \ {Sentinel} :
       /\ prompt' = InputLine(prompt, line)
       /\ round' = Append(round, line)
  /\ UNCHANGED <<pc, args, stdin, model, history, request, http, console,
                 uncaught, exit_code, sigint, sent, replies, svars, pvars>>

\* input() returns the sentinel: back to the head of the loop
ReadSentinel ==
  /\ pc = "awaiting_input"
  /\ pc' = "loop_head"
  /\ UNCHANGED <<args, stdin, model, prompt, history, request, http, console,
                 uncaught, exit_code, sigint, round, sent, replies, svars, pvars>>

\* input() meets the end of the terminal input
ReadEOF ==
  /\ pc = "awaiting_input"
  /\ Die("EOFError")
  /\ UNCHANGED <<args, stdin, model, prompt, history, request, http, console,
                 sigint, round, sent, replies, svars, pvars>>

\* the terminal interrupt: KeyboardInterrupt is raised where main stands
Interrupt ==
  /\ pc \notin {"exited", "idle"}
  /\ sigint' = pc
  /\ IF args.chat /\ InTry(pc)
     THEN console' = console \cup {ExitingNotice} /\ Exit(0)
     ELSE /\ console' = console
          /\ pc' = "exited" /\ exit_code' = 130 /\ uncaught' = "KeyboardInterrupt"
  /\ UNCHANGED <<args, stdin, model, prompt, history, request, http, round,
                 sent, replies, svars, pvars>>

Next ==
  \/ ListModels \/ ResolveModel \/ SingleShotSend \/ ChatStart \/ ChatSend
  \/ RequestFails \/ ReceiveResponse \/ ReadLine \/ ReadSentinel \/ ReadEOF
  \/ Interrupt

Spec == Init /\ [][Next]_vars

\* ---------------------------------------------------- properties of Spec
\* the turns of the cycles: prompt i, then reply i
Turns(us, as) ==
  [i \in 1..(2 * Len(as)) |->
     IF i % 2 = 1 THEN Message("user", us[(i + 1) \div 2])
     ELSE Message("assistant", as[i \div 2])]

\* C2: from the start of the chat session on, the history is the system
\* entry, unchanged since the start, then the user and assistant entries of
\* the completed cycles in turn order (then the user entry of a cycle under
\* way): exactly one system entry, at index 1, and no two adjacent entries
\* of the same role.
C2_HistoryShape ==
  history # <<>> =>
    /\ history[1] = Message("system", IF args.system \in {None, EmptyStr}
                                      THEN SYSTEM_MESSAGE ELSE args.system)
    /\ Cardinality({i \in DOMAIN history : history[i].role = "system"}) = 1
    /\ \A i \in 1..(Len(history) - 1) : history[i].role # history[i + 1].role
    /\ Len(replies) <= Len(sent) /\ Len(sent) <= Len(replies) + 1
    /\ history = <<history[1]>> \o Turns(sent, replies) \o
                 (IF Len(sent) > Len(replies)
                  THEN <<Message("user", Last(sent))>> ELSE <<>>)
    /\ pc \in {"loop_head", "awaiting_input"} => Len(history) = 1 + 2 * Len(replies)

\* two cycles are complete, with different prompts
C2_Witness ==
  /\ pc = "awaiting_input"
  /\ Len(replies) = 2
  /\ sent[1] # sent[2]
  /\ Len(history) = 5

\* C4: a run with no prompt available (no positional prompt, no -append_p
\* value, empty standard input), in single-shot and in chat mode, ends with
\* the missing-input error and a non-zero status, and has issued no HTTP call.
C4_MissingPromptNoNetwork ==
  ( /\ pc = "exited" /\ sigint = "none" /\ uncaught = NoExc /\ ~args.list
    /\ args.prompt = None /\ args.append_p = None
    /\ (args.chat \/ stdin = EmptyStr) )
  => /\ exit_code # 0
     /\ NoPromptError \in console
     /\ http = <<>>

\* C7 as stated: in chat mode an interrupt that arrives while a request is in
\* flight ends neither the loop nor the process, and one that arrives while
\* a line is awaited ends the process with status zero.
C7_InterruptOnlyBetweenLines ==
  args.chat =>
    /\ sigint = "in_flight" => pc # "exited"
    /\ sigint = "awaiting_input" => pc = "exited" /\ exit_code = 0

\* C7 amended: in chat mode an interrupt that arrives anywhere in the session
\* loop, while a request is in flight as well as while a line is awaited,
\* ends the loop and the process with status zero.
C7_InterruptEndsSession ==
  (args.chat /\ sigint \in {"loop_head", "in_flight", "awaiting_input"}) =>
    /\ pc = "exited"
    /\ exit_code = 0
    /\ uncaught = NoExc
    /\ ExitingNotice \in console

\* an interrupt arrived during the request of the second cycle
C7_Witness ==
  /\ args.chat
  /\ sigint = "in_flight"
  /\ Len(sent) = 2
  /\ pc = "exited" /\ exit_code = 0

\* out is line with a newline between every two characters
JoinedWithNewlines(line, out) ==
  /\ Len(out) = IF line = <<>> THEN 0 ELSE 2 * Len(line) - 1
  /\ \A i \in 1..Len(out) :
       out[i] = IF i % 2 = 1 THEN line[(i + 1) \div 2] ELSE "\n"

\* C10: the user entry of a cycle after the first depends only on the last
\* line entered before the sentinel: it is that line with a newline between
\* its characters, whatever the earlier lines of the round were, and when the
\* sentinel came first it is the previous user prompt, sent again.
C10_NextPromptIsLastLine ==
  (args.chat /\ pc = "in_flight" /\ Len(sent) >= 2) =>
    LET user == history[Len(history)]
        previous == history[Len(history) - 2]
    IN /\ user.role = "user" /\ previous.role = "user"
       /\ request.messages = history
       /\ IF round = <<>> THEN user.content = previous.content
          ELSE JoinedWithNewlines(Last(round), user.content)

\* two different lines were entered before the sentinel
C10_Witness ==
  /\ args.chat /\ pc = "in_flight" /\ Len(sent) = 2
  /\ Len(round) = 2
  /\ round[1] = EmptyStr /\ round[2] = <<"a", "b">>
  /\ history[Len(history)].content = <<"a", "\n", "b">>


\* ============================================================== SpecStream

StreamInit ==
  /\ no_md \in BOOLEAN
  /\ chatmode \in BOOLEAN
  /\ lines = <<>>
  /\ yielded = <<>>
  /\ ended = FALSE
  /\ sr = sr0
  /\ PickIdle
  /\ MainIdle

\* the transport delivers one more line
RecvLine ==
  /\ sr.status = "ACCUMULATING"
  /\ Len(lines) < MaxLines
  /\ \E raw_line \in ResponseLines(chatmode) :
       /\ lines' = Append(lines, raw_line)
       /\ yielded' = yielded \o json_stream_line(raw_line).yield
       /\ sr' = OnLine(sr, raw_line, no_md, chatmode)
  /\ UNCHANGED <<no_md, chatmode, ended, pvars, mvars>>

\* the transport closes the connection: the loop ends
EndOfStream ==
  /\ sr.status = "ACCUMULATING"
  /\ ended' = TRUE
  /\ sr' = Finish(sr)
  /\ UNCHANGED <<no_md, chatmode, lines, yielded, pvars, mvars>>

\* iter_lines raises a transport error, which nothing catches
TransportError ==
  /\ sr.status = "ACCUMULATING"
  /\ sr' = [sr EXCEPT !.status = "RAISED", !.exc = "RequestException"]
  /\ UNCHANGED <<no_md, chatmode, lines, yielded, ended, pvars, mvars>>

StreamNext == RecvLine \/ EndOfStream \/ TransportError

SpecStream == StreamInit /\ [][StreamNext]_vars

\* ------------------------------------------------- properties of SpecStream
\* what the claims call the decoded valid lines and the text fragments,
\* stated on the lines received and not on what the code did with them
ValidValues(ls) ==
  LET v == SelectSeq(ls, LAMBDA l : l.kind = "json")
  IN [i \in 1..Len(v) |-> v[i].value]

TextOf(v, chat) ==
  IF v.t # "dict" THEN EmptyStr
  ELSE IF chat
       THEN IF "message" \in DOMAIN v.d /\ "content" \in DOMAIN v.d.message
            THEN v.d.message.content ELSE EmptyStr
       ELSE IF "response" \in DOMAIN v.d THEN v.d.response ELSE EmptyStr

Texts(vs, chat) == [i \in 1..Len(vs) |-> TextOf(vs[i], chat)]

NonEmptyTexts(vs, chat) == SelectSeq(Texts(vs, chat), LAMBDA t : t # EmptyStr)

\* C1: whenever stream_response returns, in raw and in formatted mode and
\* for both field layouts, the value returned is the concatenation, in
\* arrival order, of the text fragments of all records of the stream.
C1_ReturnsConcatenation ==
  sr.status = "DONE" => sr.ret = Concat(Texts(yielded, chatmode))

\* C3: when the stream has ended and its last record has a zero or a missing
\* eval_duration, stream_response has raised nothing, printed no metric and
\* returned its text; when eval_duration > 0 the metric printed is
\* eval_count / eval_duration scaled to seconds (100 tokens in 2 s: 50.00).
C3_NoMetricWithoutDuration ==
  (ended /\ sr.chunk.bound) =>
     LET d == sr.chunk.value.d IN
     /\ Get(d, "eval_duration", 0) = 0 =>
          sr.status = "DONE" /\ sr.exc = NoExc /\ sr.metric = None /\ sr.ret = sr.buffer
     /\ (Get(d, "eval_duration", 0) = 2 * NsPerSec /\ Get(d, "eval_count", 0) = 100) =>
          sr.status = "DONE" /\ sr.metric = 5000

\* C5: at every moment json_stream has yielded exactly the decoded values of
\* the valid JSON lines received so far, in their order, nothing for blank
\* and malformed lines, and no JSONDecodeError has left it.
C5_DecoderYieldsValidInOrder ==
  /\ yielded = ValidValues(lines)
  /\ sr.exc # "JSONDecodeError"

\* a valid line, then a blank or malformed one, then a valid one, all handled
C5_Witness ==
  /\ Len(yielded) = 2
  /\ \E i, j, k \in 1..Len(lines) :
        /\ i < j /\ j < k
        /\ lines[i].kind = "json" /\ lines[j].kind # "json" /\ lines[k].kind = "json"

\* C8: in raw mode the texts printed so far are exactly the non-empty
\* fragments of the records read so far, in the order received, each printed
\* once and unchanged, a repeated fragment printed again.
C8_RawEmitsEveryFragmentInOrder ==
  no_md => sr.emitted = NonEmptyTexts(yielded, chatmode)

\* the same fragment has been printed twice, around a different one
C8_Witness ==
  /\ no_md
  /\ Len(sr.emitted) = 3
  /\ sr.emitted[1] = sr.emitted[3]
  /\ sr.emitted[1] # sr.emitted[2]

\* C9: once the stream has ended (also with no record at all) the call has
\* left ACCUMULATING for DONE and returned a string, the empty string when
\* there was no fragment, without raising.
C9_EndOfStreamReachesDone ==
  ended =>
    /\ sr.status = "DONE"
    /\ sr.exc = NoExc
    /\ sr.ret # None
    /\ (NonEmptyTexts(yielded, chatmode) = <<>> => sr.ret = EmptyStr)

\* ---------------------------------------------------- property of SpecPick
FirstListed ==
  IF server.ok
  THEN LET d == server.data
           l == IF "tags" \in DOMAIN d /\ JTruthy(d.tags) THEN d.tags
                ELSE IF "models" \in DOMAIN d THEN d.models ELSE JNone
       IN IF l.t = "list" THEN Names(l.items) ELSE <<>>
  ELSE <<>>

\* C6: the model is resolved by strict precedence: a non-empty explicit name
\* is returned whatever the environment and the listing hold, and without
\* calling the listing endpoint; otherwise a non-empty OLLAMA_MODEL;
\* otherwise the first listed name; and with an empty listing pick_model
\* raises the no-models-available error and returns no name.
C6_ModelPrecedence ==
  picked # Pending =>
    IF user_specified \notin {None, EmptyStr}
    THEN picked.ok /\ picked.value = user_specified /\ picked.calls = <<>>
    ELSE IF env_model \notin {None, EmptyStr}
    THEN picked.ok /\ picked.value = env_model /\ picked.calls = <<>>
    ELSE IF FirstListed # <<>>
    THEN picked.ok /\ picked.value = FirstListed[1]
    ELSE ~picked.ok /\ picked.msg = "No models available to pick"

\* an explicit name has won over a different environment value and a listing
C6_Witness ==
  /\ picked # Pending /\ picked.ok
  /\ user_specified = <<"m">> /\ env_model = <<"e">>
  /\ FirstListed # <<>>
  /\ picked.value = <<"m">>

====
